---- MODULE Spec2Model ----
(***************************************************************************)
(* A model of the process-wide Logger singleton of src/logger.cpp:         *)
(* one-shot initialization, level filtering, record emission, and the      *)
(* size-triggered rotation of the log file.                                *)
(*                                                                         *)
(* Four kinds of specification share the program state:                    *)
(*   Spec, SpecFault  one caller; every entry point is one atomic action   *)
(*                    (SpecFault lets the host refuse to open a file);     *)
(*   SpecInit, SpecInitFault                                               *)
(*                    several threads call initialize, cut at its accesses *)
(*                    to shared state;                                     *)
(*   SpecLog          several threads call log on an initialized logger,   *)
(*                    cut at its accesses to shared state;                 *)
(*   SpecName         the pure function getNewFileName on bounded inputs.  *)
(***************************************************************************)
EXTENDS Integers, Sequences, FiniteSets, TLC

VARIABLES
    instance_,    \* Logger::instance_ : <<>> (nullptr) or <<the Logger object>>
    init_flag_,   \* Logger::init_flag_ : the std::once_flag
    dir,          \* the file system's names: path -> inode
    inodes,       \* the file system's files: inode -> content
    streams,      \* the std::ofstream objects ever made: id -> [ino, st]
    console,      \* the console streams' output: name -> content
    crashed,      \* the process was killed by a null dereference
    io_faults,    \* whether the host may refuse to open a file
    ncalls,       \* number of log calls made so far (names each call)
    ninit,        \* number of initialize calls made so far
    nconstructed, \* number of Logger objects ever constructed
    rotations,    \* rotations completed under the current rotation policy
    quota,        \* how many calls the callers make: [logs, inits]
    last,         \* the entry point that acted last, and how it ended
    thr,          \* SpecInit, SpecLog: each thread's position and locals
    nm            \* SpecName: input and output of getNewFileName

vars == <<instance_, init_flag_, dir, inodes, streams, console, crashed,
          io_faults, ncalls, ninit, nconstructed, rotations, quota, last,
          thr, nm>>

---------------------------------------------------------------------------
(* Bounds of the model *)

MaxLogCalls == 3        \* Spec: log calls
MaxInits == 2           \* Spec, SpecFault: initialize calls
FaultLogCalls == 2      \* SpecFault: log calls
NThreads == 2           \* SpecInit, SpecInitFault, SpecLog: threads
MaxThreadInits == 2     \* SpecInit, SpecInitFault: initialize calls of a thread
MaxThreadLogs == 1      \* SpecLog: log calls of a thread
MaxPathLen == 4         \* SpecName: length of a path
MaxIdx == 11            \* SpecName: backup index

---------------------------------------------------------------------------
(* enum class LogLevel *)

TRACE == 0
DEBUG == 1
INFO == 2
WARN == 3
ERROR == 4
FATAL == 5

LogLevel == {TRACE, DEBUG, INFO, WARN, ERROR, FATAL}

(* The console streams: callers hand std::cout to initialize, std::cerr     *)
(* receives the "already initialized" diagnostic.                          *)
ConsoleStreams == {"cout", "cerr"}

LoggerStreams == {"cout"}

(* Paths are strings, modelled as sequences of characters. *)
PathChars == {"a", ".", "/"}

LogFileNames == { <<"a", ".", "l">>, <<"a">>, <<"d", ".", "d", "/", "a">> }

(* The severities callers pass in the model's runs: one below, one at and *)
(* one above the middle threshold.                                         *)
InputLevels == {INFO, WARN, ERROR}

(* LoggerDefs::FileSettings *)
Settings(clear, rotation, size, backups) ==
    [clearFileOnStartup |-> clear, enableRotation |-> rotation,
     maxFileSize |-> size, maxBackupIndex |-> backups]

(* The rotation policies callers pass to configure in the model's runs,    *)
(* and the values the never-initialized member can hold after              *)
(* construction.  A record is 3 long, so with maxFileSize 3 a file holding *)
(* one record is at the threshold and an empty file is below it.           *)
Policies ==
    { Settings(FALSE, FALSE, 0, 1), Settings(TRUE, TRUE, 3, 2),
      Settings(FALSE, TRUE, 0, 2), Settings(TRUE, FALSE, 3, 1) }

(* One record is written by a chain of stream insertions; the model keeps  *)
(* three of them: the severity tag, the call-site header, the message with *)
(* the line terminator.                                                    *)
RecordParts == <<"tag", "meta", "msg">>

Fragment(id, level, part) == [call |-> id, lvl |-> level, part |-> part]

RecordOf(id, level) ==
    [k \in 1..Len(RecordParts) |-> Fragment(id, level, RecordParts[k])]

OldLine == <<Fragment(0, TRACE, "tag"), Fragment(0, TRACE, "meta"),
             Fragment(0, TRACE, "msg")>>

Diagnostic == Fragment(0, TRACE, "already initialized")

---------------------------------------------------------------------------
(* Strings *)

Digits == <<"0", "1", "2", "3", "4", "5", "6", "7", "8", "9">>

(* std::to_string(int) *)
RECURSIVE to_string_nat(_)
to_string_nat(n) ==
    IF n < 10 THEN <<Digits[n + 1]>>
    ELSE to_string_nat(n \div 10) \o <<Digits[(n % 10) + 1]>>

to_string(n) == IF n < 0 THEN <<"-">> \o to_string_nat(0 - n) ELSE to_string_nat(n)

(* std::string::find_last_of(c): the last position (from 1) holding c,     *)
(* 0 for npos.                                                             *)
FindLastOf(str, c) ==
    LET hits == { k \in 1..Len(str) : str[k] = c }
    IN  IF hits = {} THEN 0 ELSE CHOOSE k \in hits : \A j \in hits : j <= k

(* std::string::insert(pos, text), pos counted from 1 *)
Insert(str, pos, text) ==
    SubSeq(str, 1, pos - 1) \o text \o SubSeq(str, pos, Len(str))

getNewFileName(filename, appended_idx) ==
    LET dot_pos == FindLastOf(filename, ".")
    IN  IF dot_pos # 0
        THEN Insert(filename, dot_pos, <<"_">> \o to_string(appended_idx))
        ELSE filename \o <<"_">> \o to_string(appended_idx)

---------------------------------------------------------------------------
(* The host's file system and the std::ofstream objects.                   *)
(* A file system value F is [dir, inodes, streams].  A name binds an inode *)
(* (rename moves the binding, an open stream keeps its inode); a stream is *)
(* [ino, st] with st "open", "closed" or "destroyed".  Every directory a   *)
(* path names exists, so a rename fails only when its source is missing.   *)

NoStream == 0

Exists(F, path) == path \in DOMAIN F.dir

(* An inode no name and no open stream refers to is reclaimed. *)
Reclaim(F) ==
    LET used(i) == \/ \E p \in DOMAIN F.dir : F.dir[p] = i
                   \/ \E k \in 1..Len(F.streams) :
                         F.streams[k].ino = i /\ F.streams[k].st = "open"
    IN  [F EXCEPT !.inodes =
            [i \in 1..Len(F.inodes) |-> IF used(i) THEN F.inodes[i] ELSE <<>>]]

(* std::ofstream(path, mode) that opened: the new stream's id is           *)
(* Len(streams) + 1.  std::ios::app keeps the content of an existing file, *)
(* std::ios::trunc empties it; both create a missing file.                 *)
OpenStream(F, path, truncate) ==
    IF Exists(F, path)
    THEN LET i == F.dir[path]
         IN  [F EXCEPT !.streams = Append(@, [ino |-> i, st |-> "open"]),
                       !.inodes[i] = IF truncate THEN <<>> ELSE @]
    ELSE LET i == Len(F.inodes) + 1
         IN  [dir |-> [p \in DOMAIN F.dir \cup {path} |->
                          IF p = path THEN i ELSE F.dir[p]],
              inodes |-> Append(F.inodes, <<>>),
              streams |-> Append(F.streams, [ino |-> i, st |-> "open"])]

(* std::ofstream::close *)
CloseStream(F, id) ==
    IF F.streams[id].st = "open"
    THEN Reclaim([F EXCEPT !.streams[id].st = "closed"])
    ELSE F

(* ~std::ofstream, run when the owning unique_ptr is reassigned *)
DestroyStream(F, id) ==
    Reclaim([F EXCEPT !.streams[id].st = "destroyed"])

(* std::filesystem::rename(old, new), old existing: new is replaced *)
Rename(F, old, new) ==
    Reclaim([F EXCEPT !.dir =
        [p \in (DOMAIN F.dir \ {old}) \cup {new} |->
            IF p = new THEN F.dir[old] ELSE F.dir[p]]])

(* operator<< on an ofstream: an insertion into a stream that is not open  *)
(* fails and leaves no trace.                                              *)
InsertFile(F, id, frags) ==
    IF F.streams[id].st = "open"
    THEN [F EXCEPT !.inodes[F.streams[id].ino] = @ \o frags]
    ELSE F

(* flush, seekp(0, end), tellp: the file's length, -1 on a failed stream *)
Tellp(F, id) ==
    IF F.streams[id].st = "open" THEN Len(F.inodes[F.streams[id].ino]) ELSE -1

Content(F, path) == IF Exists(F, path) THEN F.inodes[F.dir[path]] ELSE <<>>

---------------------------------------------------------------------------
(* The Logger object *)

(* out_ points at a console stream or at an ofstream *)
ToConsole(name) == [console |-> name, file |-> NoStream]
ToFile(id) == [console |-> "", file |-> id]

(* A constructor that empties the file when clearFileOnStartup is set *)
StartupTruncatesIfClear(settings) == settings.clearFileOnStartup

(* Logger::Logger(const std::string&, LogLevel, bool) : the open mode is   *)
(* std::ios::app whatever file_settings_ holds; clearFileOnStartup is read *)
(* nowhere.                                                                *)
StartupTruncates(settings) == FALSE

(* Logger::Logger(std::ostream&, LogLevel, bool).  file_settings_ has no   *)
(* initializer: it holds whatever the storage held, here `indet`.          *)
LoggerOnStream(stream, level, enable_colors, indet) ==
    [out_ |-> ToConsole(stream), min_level_ |-> level,
     owned_file_ |-> NoStream, enable_colors_ |-> enable_colors,
     file_settings_ |-> indet, log_filename_ |-> <<>>]

(* Logger::Logger(const std::string&, LogLevel, bool), the file opened:    *)
(* F is the file system after std::ofstream(filename, std::ios::app).      *)
LoggerOnFile(F, filename, level, enable_colors, indet) ==
    [out_ |-> ToFile(Len(F.streams)), min_level_ |-> level,
     owned_file_ |-> Len(F.streams), enable_colors_ |-> enable_colors,
     file_settings_ |-> indet, log_filename_ |-> filename]

(* A test of instance_ that never finds it null *)
NeverNull(inst) == FALSE

(* Logger::instance__ : instance_ == nullptr *)
IsNull(inst) == inst = <<>>

(* Logger::instance__ : "uninitialized" when it throws; otherwise it       *)
(* returns *instance_, and a call through a null instance_ kills the       *)
(* process.                                                                *)
Access(inst) ==
    IF IsNull(inst) THEN "uninitialized"
    ELSE IF inst = <<>> THEN "crash"
    ELSE "ok"

(* A filter that lets through the level just below the minimum *)
FilteredBelowPrevious(level, min_level) == level + 1 < min_level

(* Logger::log : level < min_level_ *)
Filtered(level, min_level) == level < min_level

(* A rotation call made only when rotation is enabled *)
CallsRotateIfEnabled(L) == L.file_settings_.enableRotation

(* Logger::log : file_settings_.enableRotation || owned_file_ *)
CallsRotate(L) == L.file_settings_.enableRotation \/ L.owned_file_ # NoStream

(* Logger::rotateLogFiles : tellp() < maxFileSize *)
NoRotationNeeded(pos, maxFileSize) == pos < maxFileSize

(* Logger::rotateLogFiles : one round of the backup loop *)
ShiftOne(F, filename, i) ==
    LET old_name == getNewFileName(filename, i - 1)
        new_name == getNewFileName(filename, i)
    IN  IF Exists(F, old_name) THEN Rename(F, old_name, new_name) ELSE F

(* Logger::rotateLogFiles : for (i = maxBackupIndex - 1; i >= 1; --i) *)
RECURSIVE ShiftBackups(_, _, _)
ShiftBackups(F, filename, i) ==
    IF i >= 1 THEN ShiftBackups(ShiftOne(F, filename, i), filename, i - 1)
    ELSE F

(* Logger::rotateLogFiles.  Returns the file system and Logger after the   *)
(* call and how it ended: "false", "true", or the exception thrown         *)
(* ("rename_error": std::filesystem::rename on a missing primary file;     *)
(* "open_error": the replacement file did not open).                       *)
rotateLogFiles(F, L, open_ok) ==
    LET id == L.owned_file_
        name == L.log_filename_
    IN  IF NoRotationNeeded(Tellp(F, id), L.file_settings_.maxFileSize)
        THEN [F |-> F, L |-> L, ret |-> "false"]
        ELSE
          LET F1 == CloseStream(F, id)
              F2 == ShiftBackups(F1, name, L.file_settings_.maxBackupIndex - 1)
          IN  IF ~Exists(F2, name)
              THEN [F |-> F2, L |-> L, ret |-> "rename_error"]
              ELSE
                LET F3 == Rename(F2, name, getNewFileName(name, 1))
                IN  IF ~open_ok
                    THEN [F |-> F3, L |-> L, ret |-> "open_error"]
                    ELSE
                      LET F4 == OpenStream(F3, name, TRUE)
                          new == Len(F4.streams)
                      IN  [F |-> DestroyStream(F4, id),
                           L |-> [L EXCEPT !.out_ = ToFile(new),
                                           !.owned_file_ = new],
                           ret |-> "true"]

(* A log that lets only the rename error out *)
ThrowsRenameOnly(ret) == ret = "rename_error"

(* Logger::log : rotateLogFiles() is called with no try block around it,   *)
(* so each of its exceptions leaves log.                                   *)
Throws(ret) == ret \in {"rename_error", "open_error"}

(* Logger::log : the insertions `frags` into the stream out_ points at *)
Emit(F, con, out, frags) ==
    IF out.file # NoStream
    THEN [F |-> InsertFile(F, out.file, frags), con |-> con]
    ELSE [F |-> F, con |-> [con EXCEPT ![out.console] = @ \o frags]]

(* Logger::instance__().log(level, msg, location), call number id.         *)
(* result: "uninitialized" (instance__ threw), "filtered", "crash"         *)
(* (rotateLogFiles through the null owned_file_), an exception of          *)
(* rotateLogFiles, or "ok" (log returned after its insertions).            *)
LogCall(inst, F, con, level, id, open_ok) ==
    LET same(res) == [inst |-> inst, F |-> F, con |-> con,
                      result |-> res, rot |-> "none"]
    IN  IF Access(inst) # "ok" THEN same(Access(inst))
        ELSE
          LET L == inst[1]
          IN  IF Filtered(level, L.min_level_) THEN same("filtered")
              ELSE IF CallsRotate(L) /\ L.owned_file_ = NoStream
              THEN same("crash")
              ELSE
                LET R == IF CallsRotate(L) THEN rotateLogFiles(F, L, open_ok)
                         ELSE [F |-> F, L |-> L, ret |-> "none"]
                IN  IF Throws(R.ret)
                    THEN [inst |-> <<R.L>>, F |-> R.F, con |-> con,
                          result |-> R.ret, rot |-> R.ret]
                    ELSE
                      LET E == Emit(R.F, con, R.L.out_, RecordOf(id, level))
                      IN  [inst |-> <<R.L>>, F |-> E.F, con |-> E.con,
                           result |-> "ok", rot |-> R.ret]

(* A flag that never records a completed call, and one that also records  *)
(* a call that threw                                                       *)
OnceRunsAlways(flag) == TRUE

OnceAfterAnyCall(threw) == "done"

(* std::call_once(init_flag_, f): f runs unless a call has completed; a    *)
(* call of f that throws leaves the flag unset.                            *)
OnceRuns(flag) == flag # "done"

OnceAfter(threw) == IF threw THEN "idle" ELSE "done"

(* A four-argument configure that forgets maxBackupIndex *)
StoreSettingsButBackups(L, clear, rotation, size, backups) ==
    [L EXCEPT !.file_settings_.clearFileOnStartup = clear,
              !.file_settings_.enableRotation = rotation,
              !.file_settings_.maxFileSize = size]

(* Logger::configure(bool, bool, int, int) : the four assignments *)
StoreSettings(L, clear, rotation, size, backups) ==
    [L EXCEPT !.file_settings_.clearFileOnStartup = clear,
              !.file_settings_.enableRotation = rotation,
              !.file_settings_.maxFileSize = size,
              !.file_settings_.maxBackupIndex = backups]

(* Logger::configure(const FileSettings&) : file_settings_ = settings *)
AssignSettings(L, settings) == [L EXCEPT !.file_settings_ = settings]

(* Logger::initialize : if (instance_ != nullptr) std::cerr << ... *)
Warn(inst, con) ==
    IF ~IsNull(inst) THEN [con EXCEPT !["cerr"] = Append(@, Diagnostic)]
    ELSE con

---------------------------------------------------------------------------
(* State shared by the specifications *)

Threads == 1..NThreads

FS == [dir |-> dir, inodes |-> inodes, streams |-> streams]

SetFS(F) == dir' = F.dir /\ inodes' = F.inodes /\ streams' = F.streams

(* What opening a file can do: it opens, or (a faulty host) it does not *)
OpenOutcomes == IF io_faults THEN BOOLEAN ELSE {TRUE}

NoOp == [op |-> "none", level |-> TRACE, result |-> "", rot |-> "none",
         arg |-> <<>>]

Did(op, level, result, rot) ==
    [op |-> op, level |-> level, result |-> result, rot |-> rot, arg |-> <<>>]

(* A thread: where it is (pc), the entry point it is in or left last (op), *)
(* how that call ended (res), the calls it has completed, and the call's   *)
(* locals: the arguments (level, arg), the call's number (id), whether it  *)
(* printed the diagnostic (warned) and ran the constructor (built), the    *)
(* stream its insertions go to (out), the loop index (i), the replacement  *)
(* stream (new), the insertion it is at (part).                            *)
IdleThread ==
    [pc |-> "idle", op |-> "none", res |-> "", calls |-> 0,
     level |-> TRACE, arg |-> <<>>, id |-> 0, warned |-> FALSE,
     built |-> FALSE, out |-> ToConsole(""), i |-> 0, new |-> NoStream,
     part |-> 0]

NameIdle == [in |-> <<>>, idx |-> 0, out |-> <<>>, done |-> TRUE]

(* The file system before the program starts: an earlier run left a.l with *)
(* one line; the other log files do not exist.                             *)
InitialFiles == { <<<<"a", ".", "l">>>> }

InitProgram(faults, files, logs) ==
    /\ instance_ = <<>>
    /\ init_flag_ = "idle"
    /\ dir = [p \in { files[k] : k \in 1..Len(files) } |->
                CHOOSE k \in 1..Len(files) : files[k] = p]
    /\ inodes = [k \in 1..Len(files) |-> OldLine]
    /\ streams = <<>>
    /\ console = [c \in ConsoleStreams |-> <<>>]
    /\ crashed = FALSE
    /\ io_faults = faults
    /\ ncalls = 0
    /\ ninit = 0
    /\ nconstructed = 0
    /\ rotations = 0
    /\ quota = [logs |-> logs, inits |-> MaxInits]
    /\ last = NoOp
    /\ thr = [t \in Threads |-> IdleThread]
    /\ nm = NameIdle

Init == \E files \in InitialFiles : InitProgram(FALSE, files, MaxLogCalls)

InitFault == \E files \in InitialFiles : InitProgram(TRUE, files, FaultLogCalls)

---------------------------------------------------------------------------
(* One caller: every entry point is one action *)

(* Logger::initialize(std::ostream& stream, LogLevel level) *)
InitializeStream ==
    \E stream \in LoggerStreams, level \in InputLevels, indet \in Policies :
        /\ ~crashed /\ ninit < quota.inits
        /\ ninit' = ninit + 1
        /\ console' = Warn(instance_, console)
        /\ IF OnceRuns(init_flag_)
           THEN /\ instance_' = <<LoggerOnStream(stream, level, TRUE, indet)>>
                /\ init_flag_' = OnceAfter(FALSE)
                /\ nconstructed' = nconstructed + 1
                /\ rotations' = 0
           ELSE UNCHANGED <<instance_, init_flag_, nconstructed, rotations>>
        /\ last' = Did("initialize", TRACE, "ok", "none")
        /\ UNCHANGED <<dir, inodes, streams, crashed, io_faults, ncalls, quota, thr, nm>>

(* Logger::initialize(const std::string& filename, LogLevel level) *)
InitializeFile ==
    \E filename \in LogFileNames, level \in InputLevels, indet \in Policies,
       open_ok \in OpenOutcomes :
        /\ ~crashed /\ ninit < quota.inits
        /\ ninit' = ninit + 1
        /\ console' = Warn(instance_, console)
        /\ IF OnceRuns(init_flag_)
           THEN IF open_ok
                THEN LET F == OpenStream(FS, filename, StartupTruncates(indet))
                     IN  /\ SetFS(F)
                         /\ instance_' =
                              <<LoggerOnFile(F, filename, level, FALSE, indet)>>
                         /\ init_flag_' = OnceAfter(FALSE)
                         /\ nconstructed' = nconstructed + 1
                         /\ rotations' = 0
                         /\ last' = Did("initialize", TRACE, "ok", "none")
                ELSE /\ init_flag_' = OnceAfter(TRUE)
                     /\ last' = Did("initialize", TRACE, "open_error", "none")
                     /\ UNCHANGED <<dir, inodes, streams, instance_,
                                    nconstructed, rotations>>
           ELSE /\ last' = Did("initialize", TRACE, "ok", "none")
                /\ UNCHANGED <<dir, inodes, streams, instance_, init_flag_,
                               nconstructed, rotations>>
        /\ UNCHANGED <<crashed, io_faults, ncalls, quota, thr, nm>>

(* LOG_TRACE ... LOG_FATAL : Logger::instance__().log(level, msg, location) *)
Log ==
    \E level \in InputLevels, open_ok \in OpenOutcomes :
        /\ ~crashed /\ ncalls < quota.logs
        /\ ncalls' = ncalls + 1
        /\ LET R == LogCall(instance_, FS, console, level, ncalls + 1, open_ok)
           IN  /\ instance_' = R.inst
               /\ SetFS(R.F)
               /\ console' = R.con
               /\ crashed' = (R.result = "crash")
               /\ rotations' = IF R.rot = "true" THEN rotations + 1 ELSE rotations
               /\ last' = Did("log", level, R.result, R.rot)
        /\ UNCHANGED <<init_flag_, io_faults, ninit, nconstructed, quota, thr, nm>>

(* Logger::instance__().setLogLevel(level) *)
SetLogLevel ==
    \E level \in InputLevels :
        /\ ~crashed
        /\ IF Access(instance_) # "ok"
           THEN /\ last' = Did("setLogLevel", level, Access(instance_), "none")
                /\ UNCHANGED instance_
           ELSE /\ instance_' = <<[instance_[1] EXCEPT !.min_level_ = level]>>
                /\ last' = Did("setLogLevel", level, "ok", "none")
        /\ crashed' = (Access(instance_) = "crash")
        /\ UNCHANGED <<init_flag_, dir, inodes, streams, console,
                       io_faults, ncalls, ninit, nconstructed, rotations, quota, thr,
                   nm>>

(* Logger::instance__().getLogLevel() *)
GetLogLevel ==
    /\ ~crashed
    /\ last' = IF Access(instance_) # "ok"
               THEN Did("getLogLevel", TRACE, Access(instance_), "none")
               ELSE Did("getLogLevel", instance_[1].min_level_, "ok", "none")
    /\ crashed' = (Access(instance_) = "crash")
    /\ UNCHANGED <<instance_, init_flag_, dir, inodes, streams, console,
                   io_faults, ncalls, ninit, nconstructed, rotations, quota, thr,
                   nm>>

(* Logger::instance__().isColorEnabled() *)
IsColorEnabled ==
    /\ ~crashed
    /\ last' = IF Access(instance_) # "ok"
               THEN Did("isColorEnabled", TRACE, Access(instance_), "none")
               ELSE Did("isColorEnabled", TRACE,
                        IF instance_[1].enable_colors_ THEN "true" ELSE "false",
                        "none")
    /\ crashed' = (Access(instance_) = "crash")
    /\ UNCHANGED <<instance_, init_flag_, dir, inodes, streams, console,
                   io_faults, ncalls, ninit, nconstructed, rotations, quota, thr,
                   nm>>

(* LOG_RCONFIGURE : Logger::configure(bool, bool, int, int) *)
Configure ==
    \E p \in Policies :
      LET clear_file_on_startup == p.clearFileOnStartup
          enable_rotation == p.enableRotation
          max_file_size == p.maxFileSize
          max_backup_index == p.maxBackupIndex
      IN
        /\ ~crashed
        /\ crashed' = (Access(instance_) = "crash")
        /\ IF Access(instance_) # "ok"
           THEN /\ last' = Did("configure", TRACE, Access(instance_), "none")
                /\ UNCHANGED <<instance_, rotations>>
           ELSE /\ instance_' = <<StoreSettings(instance_[1],
                      clear_file_on_startup, enable_rotation, max_file_size,
                      max_backup_index)>>
                /\ rotations' = 0
                /\ last' = [Did("configure", TRACE, "true", "none")
                               EXCEPT !.arg = <<p>>]
        /\ UNCHANGED <<init_flag_, dir, inodes, streams, console,
                       io_faults, ncalls, ninit, nconstructed, quota, thr, nm>>

(* LOG_SCONFIGURE : Logger::configure(const LoggerDefs::FileSettings&) *)
ConfigureSettings ==
    \E settings \in Policies :
        /\ ~crashed
        /\ crashed' = (Access(instance_) = "crash")
        /\ IF Access(instance_) # "ok"
           THEN /\ last' = Did("configure", TRACE, Access(instance_), "none")
                /\ UNCHANGED <<instance_, rotations>>
           ELSE /\ instance_' = <<AssignSettings(instance_[1], settings)>>
                /\ rotations' = 0
                /\ last' = [Did("configure", TRACE, "true", "none")
                               EXCEPT !.arg = <<settings>>]
        /\ UNCHANGED <<init_flag_, dir, inodes, streams, console,
                       io_faults, ncalls, ninit, nconstructed, quota, thr, nm>>

Next ==
    \/ InitializeStream
    \/ InitializeFile
    \/ Log
    \/ SetLogLevel
    \/ GetLogLevel
    \/ IsColorEnabled
    \/ Configure
    \/ ConfigureSettings

Spec == Init /\ [][Next]_vars

SpecFault == InitFault /\ [][Next]_vars

---------------------------------------------------------------------------
(* Several threads call initialize.  A call is cut where it touches        *)
(* instance_ and init_flag_: the null test with its diagnostic, the entry  *)
(* into std::call_once, the constructor with the assignment to instance_,  *)
(* the return of std::call_once.                                           *)

InitThreads(faults) ==
    /\ instance_ = <<>>
    /\ init_flag_ = "idle"
    /\ dir = (<<"a", ".", "l">> :> 1)
    /\ inodes = <<OldLine>>
    /\ streams = <<>>
    /\ console = [c \in ConsoleStreams |-> <<>>]
    /\ crashed = FALSE
    /\ io_faults \in faults
    /\ ncalls = 0
    /\ ninit = 0
    /\ nconstructed = 0
    /\ rotations = 0
    /\ quota = [logs |-> 0, inits |-> MaxThreadInits]
    /\ last = NoOp
    /\ thr = [t \in Threads |-> IdleThread]
    /\ nm = NameIdle

(* The arguments the racing callers pass *)
RaceLevels == {INFO, ERROR}

RaceFileNames == { <<"a", ".", "l">>, <<"a">> }

InitRace == InitThreads({FALSE})

InitRaceFault == InitThreads(BOOLEAN)

(* The thread returns from (or is thrown out of) its call *)
Return(t, result) ==
    [thr[t] EXCEPT !.pc = "idle", !.res = result, !.calls = @ + 1,
                   !.part = 0, !.arg = <<>>, !.out = ToConsole(""), !.i = 0,
                   !.new = NoStream]

(* What std::call_once does with a caller: "return" once a call has        *)
(* completed, "wait" while another caller runs the function, "run"         *)
(* otherwise.                                                              *)
(* An entry that does not hold callers back while the function runs *)
OnceEnterUnguarded(flag) == IF OnceRuns(flag) THEN "run" ELSE "return"

OnceEnter(flag) ==
    IF ~OnceRuns(flag) THEN "return"
    ELSE IF flag = "active" THEN "wait"
    ELSE "run"

(* Logger::initialize(std::ostream&, LogLevel): the test of instance_ *)
InitializeStreamCall(t) ==
    \E stream \in LoggerStreams, level \in RaceLevels :
        /\ ~crashed /\ thr[t].pc = "idle" /\ thr[t].calls < quota.inits
        /\ ninit' = ninit + 1
        /\ console' = Warn(instance_, console)
        /\ thr' = [thr EXCEPT ![t] =
              [@ EXCEPT !.pc = "once", !.op = "initialize", !.res = "",
                        !.level = level,
                        !.arg = <<[stream |-> stream, filename |-> <<>>]>>,
                        !.warned = ~IsNull(instance_), !.built = FALSE]]
        /\ UNCHANGED <<instance_, init_flag_, dir, inodes, streams, crashed,
                       io_faults, ncalls, nconstructed, rotations, quota,
                       last, nm>>

(* Logger::initialize(const std::string&, LogLevel): the test of instance_ *)
InitializeFileCall(t) ==
    \E filename \in RaceFileNames, level \in RaceLevels :
        /\ ~crashed /\ thr[t].pc = "idle" /\ thr[t].calls < quota.inits
        /\ ninit' = ninit + 1
        /\ console' = Warn(instance_, console)
        /\ thr' = [thr EXCEPT ![t] =
              [@ EXCEPT !.pc = "once", !.op = "initialize", !.res = "",
                        !.level = level,
                        !.arg = <<[stream |-> "", filename |-> filename]>>,
                        !.warned = ~IsNull(instance_), !.built = FALSE]]
        /\ UNCHANGED <<instance_, init_flag_, dir, inodes, streams, crashed,
                       io_faults, ncalls, nconstructed, rotations, quota,
                       last, nm>>

(* std::call_once(init_flag_, ...): entry *)
CallOnce(t) ==
    /\ ~crashed /\ thr[t].pc = "once"
    /\ OnceEnter(init_flag_) # "wait"
    /\ IF OnceEnter(init_flag_) = "run"
       THEN /\ init_flag_' = "active"
            /\ thr' = [thr EXCEPT ![t].pc = "construct"]
       ELSE /\ thr' = [thr EXCEPT ![t] = Return(t, "ok")]
            /\ UNCHANGED init_flag_
    /\ UNCHANGED <<instance_, dir, inodes, streams, console, crashed, io_faults,
                   ncalls, ninit, nconstructed, rotations, quota, last, nm>>

(* instance_ = std::make_unique<Logger>(...), inside std::call_once *)
Construct(t) ==
    \E open_ok \in OpenOutcomes, indet \in Policies :
        /\ ~crashed /\ thr[t].pc = "construct"
        /\ LET a == thr[t].arg[1]
           IN  IF a.stream # ""
               THEN /\ instance_' =
                         <<LoggerOnStream(a.stream, thr[t].level, TRUE, indet)>>
                    /\ nconstructed' = nconstructed + 1
                    /\ thr' = [thr EXCEPT ![t].pc = "finish", ![t].built = TRUE]
                    /\ UNCHANGED <<init_flag_, dir, inodes, streams>>
               ELSE IF open_ok
               THEN LET F == OpenStream(FS, a.filename, StartupTruncates(indet))
                    IN  /\ SetFS(F)
                        /\ instance_' = <<LoggerOnFile(F, a.filename,
                                              thr[t].level, FALSE, indet)>>
                        /\ nconstructed' = nconstructed + 1
                        /\ thr' = [thr EXCEPT ![t].pc = "finish",
                                              ![t].built = TRUE]
                        /\ UNCHANGED init_flag_
               ELSE /\ init_flag_' = OnceAfter(TRUE)
                    /\ thr' = [thr EXCEPT ![t] = Return(t, "open_error")]
                    /\ UNCHANGED <<instance_, nconstructed, dir, inodes, streams>>
        /\ UNCHANGED <<console, crashed, io_faults, ncalls, ninit, rotations,
                       quota, last, nm>>

(* std::call_once(init_flag_, ...): the function returned *)
Finish(t) ==
    /\ ~crashed /\ thr[t].pc = "finish"
    /\ init_flag_' = OnceAfter(FALSE)
    /\ thr' = [thr EXCEPT ![t] = Return(t, "ok")]
    /\ UNCHANGED <<instance_, dir, inodes, streams, console, crashed, io_faults,
                   ncalls, ninit, nconstructed, rotations, quota, last, nm>>

NextInit ==
    \E t \in Threads :
        \/ InitializeStreamCall(t)
        \/ InitializeFileCall(t)
        \/ CallOnce(t)
        \/ Construct(t)
        \/ Finish(t)

SpecInit == InitRace /\ [][NextInit]_vars

SpecInitFault == InitRaceFault /\ [][NextInit]_vars

---------------------------------------------------------------------------
(* Several threads call log on an initialized Logger.  Logger::log takes   *)
(* no lock, so a call is cut at every access to the Logger's fields, to    *)
(* the file system and to the destination stream: each statement of        *)
(* rotateLogFiles and each insertion of the output expression is a step.   *)

(* The Loggers the threads find: on std::cout, or on a.l, which an earlier *)
(* run left with one line.  file_settings_ was never assigned.             *)
InitLog ==
    \E indet \in Policies, on_file \in BOOLEAN :
        LET F == OpenStream([dir |-> (<<"a", ".", "l">> :> 1),
                             inodes |-> <<OldLine>>, streams |-> <<>>],
                            <<"a", ".", "l">>, StartupTruncates(indet))
        IN  /\ instance_ = IF on_file
                           THEN <<LoggerOnFile(F, <<"a", ".", "l">>, WARN,
                                               FALSE, indet)>>
                           ELSE <<LoggerOnStream("cout", WARN, TRUE, indet)>>
            /\ init_flag_ = "done"
            /\ dir = F.dir
            /\ inodes = F.inodes
            /\ streams = IF on_file THEN F.streams ELSE <<>>
            /\ console = [c \in ConsoleStreams |-> <<>>]
            /\ crashed = FALSE
            /\ io_faults = FALSE
            /\ ncalls = 0
            /\ ninit = 1
            /\ nconstructed = 1
            /\ rotations = 0
            /\ quota = [logs |-> MaxThreadLogs, inits |-> 0]
            /\ last = NoOp
            /\ thr = [t \in Threads |-> IdleThread]
            /\ nm = NameIdle

(* Logger::log up to the call of rotateLogFiles *)
LogBegin(t) ==
    \E level \in RaceLevels :
        /\ ~crashed /\ thr[t].pc = "idle" /\ thr[t].calls < quota.logs
        /\ ncalls' = ncalls + 1
        /\ LET call == [thr[t] EXCEPT !.op = "log", !.res = "", !.level = level,
                                      !.id = ncalls + 1]
               enter(pc) == [call EXCEPT !.pc = pc]
               leave(res) == [call EXCEPT !.res = res, !.calls = @ + 1]
           IN  IF Access(instance_) # "ok"
               THEN /\ thr' = [thr EXCEPT ![t] = leave(Access(instance_))]
                    /\ crashed' = (Access(instance_) = "crash")
               ELSE IF Filtered(level, instance_[1].min_level_)
               THEN /\ thr' = [thr EXCEPT ![t] = leave("filtered")]
                    /\ UNCHANGED crashed
               ELSE IF ~CallsRotate(instance_[1])
               THEN /\ thr' = [thr EXCEPT ![t] = [enter("insert") EXCEPT !.part = 1]]
                    /\ UNCHANGED crashed
               ELSE IF instance_[1].owned_file_ = NoStream
               THEN /\ thr' = [thr EXCEPT ![t] = leave("crash")]
                    /\ crashed' = TRUE
               ELSE /\ thr' = [thr EXCEPT ![t] = enter("rot_check")]
                    /\ UNCHANGED crashed
        /\ UNCHANGED <<instance_, init_flag_, dir, inodes, streams, console,
                       io_faults, ninit, nconstructed, rotations, quota, last, nm>>

(* rotateLogFiles : flush, seekp, and the test of tellp *)
RotCheck(t) ==
    /\ ~crashed /\ thr[t].pc = "rot_check"
    /\ LET L == instance_[1]
       IN  thr' = [thr EXCEPT ![t] =
              IF NoRotationNeeded(Tellp(FS, L.owned_file_),
                                  L.file_settings_.maxFileSize)
              THEN [@ EXCEPT !.pc = "insert", !.part = 1]
              ELSE [@ EXCEPT !.pc = "rot_close"]]
    /\ UNCHANGED <<instance_, init_flag_, dir, inodes, streams, console, crashed,
                   io_faults, ncalls, ninit, nconstructed, rotations, quota,
                   last, nm>>

(* rotateLogFiles : owned_file_->close(), and the loop's initialization *)
RotClose(t) ==
    /\ ~crashed /\ thr[t].pc = "rot_close"
    /\ SetFS(CloseStream(FS, instance_[1].owned_file_))
    /\ thr' = [thr EXCEPT ![t].pc = "rot_shift",
                          ![t].i = instance_[1].file_settings_.maxBackupIndex - 1]
    /\ UNCHANGED <<instance_, init_flag_, console, crashed, io_faults, ncalls,
                   ninit, nconstructed, rotations, quota, last, nm>>

(* rotateLogFiles : the loop's test and one round *)
RotShift(t) ==
    /\ ~crashed /\ thr[t].pc = "rot_shift"
    /\ IF thr[t].i >= 1
       THEN /\ SetFS(ShiftOne(FS, instance_[1].log_filename_, thr[t].i))
            /\ thr' = [thr EXCEPT ![t].i = @ - 1]
       ELSE /\ thr' = [thr EXCEPT ![t].pc = "rot_rename", ![t].i = 0]
            /\ UNCHANGED <<dir, inodes, streams>>
    /\ UNCHANGED <<instance_, init_flag_, console, crashed, io_faults, ncalls,
                   ninit, nconstructed, rotations, quota, last, nm>>

(* rotateLogFiles : std::filesystem::rename(log_filename_, rotated_name),  *)
(* which throws when the primary file is not there.                        *)
RotRename(t) ==
    /\ ~crashed /\ thr[t].pc = "rot_rename"
    /\ LET name == instance_[1].log_filename_
       IN  IF Exists(FS, name)
           THEN /\ SetFS(Rename(FS, name, getNewFileName(name, 1)))
                /\ thr' = [thr EXCEPT ![t].pc = "rot_open"]
           ELSE /\ thr' = [thr EXCEPT ![t] = Return(t, "rename_error")]
                /\ UNCHANGED <<dir, inodes, streams>>
    /\ UNCHANGED <<instance_, init_flag_, console, crashed, io_faults, ncalls,
                   ninit, nconstructed, rotations, quota, last, nm>>

(* rotateLogFiles : std::make_unique<std::ofstream>(log_filename_, trunc)  *)
(* and the test of is_open                                                 *)
RotOpen(t) ==
    \E open_ok \in OpenOutcomes :
        /\ ~crashed /\ thr[t].pc = "rot_open"
        /\ IF open_ok
           THEN LET F == OpenStream(FS, instance_[1].log_filename_, TRUE)
                IN  /\ SetFS(F)
                    /\ thr' = [thr EXCEPT ![t].pc = "rot_assign_out",
                                          ![t].new = Len(F.streams)]
           ELSE /\ thr' = [thr EXCEPT ![t] = Return(t, "open_error")]
                /\ UNCHANGED <<dir, inodes, streams>>
        /\ UNCHANGED <<instance_, init_flag_, console, crashed, io_faults,
                       ncalls, ninit, nconstructed, rotations, quota, last, nm>>

(* rotateLogFiles : out_ = fileStream.get() *)
RotAssignOut(t) ==
    /\ ~crashed /\ thr[t].pc = "rot_assign_out"
    /\ instance_' = <<[instance_[1] EXCEPT !.out_ = ToFile(thr[t].new)]>>
    /\ thr' = [thr EXCEPT ![t].pc = "rot_assign_owned"]
    /\ UNCHANGED <<init_flag_, dir, inodes, streams, console, crashed, io_faults,
                   ncalls, ninit, nconstructed, rotations, quota, last, nm>>

(* rotateLogFiles : owned_file_ = std::move(fileStream), which destroys    *)
(* the stream owned_file_ held, and the return                             *)
RotAssignOwned(t) ==
    /\ ~crashed /\ thr[t].pc = "rot_assign_owned"
    /\ instance_' = <<[instance_[1] EXCEPT !.owned_file_ = thr[t].new]>>
    /\ SetFS(DestroyStream(FS, instance_[1].owned_file_))
    /\ rotations' = rotations + 1
    /\ thr' = [thr EXCEPT ![t].pc = "insert", ![t].part = 1, ![t].new = NoStream]
    /\ UNCHANGED <<init_flag_, console, crashed, io_faults, ncalls, ninit,
                   nconstructed, quota, last, nm>>

(* Another thread is in the middle of its insertions into the same ofstream *)
Racing(t, out) ==
    /\ out.file # NoStream
    /\ \E u \in Threads \ {t} :
          thr[u].pc = "insert" /\ thr[u].part > 1 /\ thr[u].out = out

(* What one insertion can do.  Into std::cout or an ofstream no other      *)
(* thread is using, it appends (and is dropped by a closed ofstream).      *)
(* Through a pointer to a destroyed ofstream, or while another thread      *)
(* inserts into the same ofstream, the behaviour is undefined: the         *)
(* characters land, or are lost, or (destroyed stream) the process dies.   *)
InsertOutcomes(F, t, out) ==
    IF out.file = NoStream THEN {"appended"}
    ELSE IF F.streams[out.file].st = "destroyed" THEN {"lost", "crash"}
    ELSE IF Racing(t, out) THEN {"appended", "lost"}
    ELSE {"appended"}

(* Logger::log : one insertion of the output expression; the first one    *)
(* reads out_, the rest go to the stream the first returned.               *)
InsertPart(t) ==
    LET out == IF thr[t].part = 1 THEN instance_[1].out_ ELSE thr[t].out
    IN  \E outcome \in InsertOutcomes(FS, t, out) :
            /\ ~crashed /\ thr[t].pc = "insert"
            /\ LET frag == <<RecordOf(thr[t].id, thr[t].level)[thr[t].part]>>
                   E == IF outcome = "appended"
                        THEN Emit(FS, console, out, frag)
                        ELSE [F |-> FS, con |-> console]
               IN  /\ SetFS(E.F)
                   /\ console' = E.con
            /\ crashed' = (outcome = "crash")
            /\ thr' = [thr EXCEPT ![t] =
                  IF outcome = "crash" THEN Return(t, "crash")
                  ELSE IF thr[t].part = Len(RecordParts) THEN Return(t, "ok")
                  ELSE [@ EXCEPT !.part = @ + 1, !.out = out]]
            /\ UNCHANGED <<instance_, init_flag_, io_faults, ncalls, ninit,
                           nconstructed, rotations, quota, last, nm>>

NextLog ==
    \E t \in Threads :
        \/ LogBegin(t)
        \/ RotCheck(t)
        \/ RotClose(t)
        \/ RotShift(t)
        \/ RotRename(t)
        \/ RotOpen(t)
        \/ RotAssignOut(t)
        \/ RotAssignOwned(t)
        \/ InsertPart(t)

SpecLog == InitLog /\ [][NextLog]_vars

---------------------------------------------------------------------------
(* getNewFileName alone, on every path of bounded length that names a file *)

RECURSIVE Strings(_)
Strings(n) ==
    IF n = 0 THEN {<<>>}
    ELSE LET shorter == Strings(n - 1)
         IN  shorter \cup { Append(str, c) : str \in shorter, c \in PathChars }

FilePaths ==
    { str \in Strings(MaxPathLen) : str # <<>> /\ str[Len(str)] # "/" }

InitName ==
    /\ instance_ = <<>>
    /\ init_flag_ = "idle"
    /\ dir = <<>>
    /\ inodes = <<>>
    /\ streams = <<>>
    /\ console = [c \in ConsoleStreams |-> <<>>]
    /\ crashed = FALSE
    /\ io_faults = FALSE
    /\ ncalls = 0
    /\ ninit = 0
    /\ nconstructed = 0
    /\ rotations = 0
    /\ quota = [logs |-> 0, inits |-> 0]
    /\ last = NoOp
    /\ thr = [t \in Threads |-> IdleThread]
    /\ nm \in [in : FilePaths, idx : 0..MaxIdx, out : {<<>>}, done : {FALSE}]

ApplyGetNewFileName ==
    /\ ~nm.done
    /\ nm' = [nm EXCEPT !.out = getNewFileName(nm.in, nm.idx), !.done = TRUE]
    /\ UNCHANGED <<instance_, init_flag_, dir, inodes, streams, console, crashed,
                   io_faults, ncalls, ninit, nconstructed, rotations, quota, last,
                   thr>>

NextName == ApplyGetNewFileName

SpecName == InitName /\ [][NextName]_vars

---------------------------------------------------------------------------
(* Vocabulary of the properties *)

Separator == Fragment(-1, TRACE, "|")

RECURSIVE Flatten(_)
Flatten(contents) ==
    IF contents = <<>> THEN <<>>
    ELSE Head(contents) \o <<Separator>> \o Flatten(Tail(contents))

(* Everything written anywhere: every file, then each console stream *)
AllOutput(ino, con) ==
    Flatten(ino) \o con["cout"] \o <<Separator>> \o con["cerr"]

(* How many insertions of call id the output holds *)
FragsOf(output, id) ==
    Cardinality({ k \in 1..Len(output) : output[k].call = id })

(* How many times the output holds the complete line `record` *)
LinesOf(output, record) ==
    Cardinality({ k \in 1..(Len(output) - Len(record) + 1) :
                    SubSeq(output, k, k + Len(record) - 1) = record })

(* The backup path as the naming convention states it: "_<i>" goes before  *)
(* the last "." of the file name (the part after the last "/"), or at the  *)
(* end when the file name has none.                                        *)
BackupPath(path, i) ==
    LET slash == FindLastOf(path, "/")
        dot == FindLastOf(SubSeq(path, slash + 1, Len(path)), ".")
    IN  IF dot # 0 THEN Insert(path, slash + dot, <<"_">> \o to_string(i))
        ELSE path \o <<"_">> \o to_string(i)

AccessOps == {"log", "setLogLevel", "getLogLevel", "isColorEnabled", "configure"}

FileBacked == ~IsNull(instance_) /\ instance_[1].owned_file_ # NoStream

---------------------------------------------------------------------------
(* Properties of the one-caller specifications *)

(* C1: a log call made at severity S on an initialized logger emits        *)
(* exactly one record when S is at or above the minimum severity in force  *)
(* at the call, and emits nothing when S is below it.                      *)
C1_FilterByLevel ==
    [][ (ncalls' = ncalls + 1 /\ ~IsNull(instance_)) =>
          LET output == AllOutput(inodes', console')
              record == RecordOf(ncalls', last'.level)
          IN  IF last'.level >= instance_[1].min_level_
              THEN /\ LinesOf(output, record) = 1
                   /\ FragsOf(output, ncalls') = Len(record)
              ELSE FragsOf(output, ncalls') = 0 ]_vars

(* C2: once an initialize call has succeeded, a later initialize call of   *)
(* either variant leaves the destination, the minimum severity and the     *)
(* color flag as they were, and no second Logger is constructed.           *)
C2_InitializeOnce ==
    /\ [](nconstructed <= 1)
    /\ [][ (nconstructed >= 1 /\ ninit' = ninit + 1) =>
             /\ nconstructed' = nconstructed
             /\ ~IsNull(instance_) /\ ~IsNull(instance_')
             /\ instance_'[1].out_ = instance_[1].out_
             /\ instance_'[1].min_level_ = instance_[1].min_level_
             /\ instance_'[1].enable_colors_ = instance_[1].enable_colors_
             /\ instance_'[1].log_filename_ = instance_[1].log_filename_
             /\ <<dir', inodes', streams'>> = <<dir, inodes, streams>> ]_vars

C2_Witness ==
    /\ last.op = "initialize" /\ last.result = "ok"
    /\ ninit >= 2 /\ nconstructed = 1
    /\ Len(console["cerr"]) >= 1

(* C5: at a log call that writes on a file-backed logger with maxFileSize  *)
(* N: when the primary file is N long or longer, afterwards its previous   *)
(* content is at <stem>_1<ext> and the primary path is a new file holding  *)
(* this call's record alone; when it is shorter than N, no file is renamed. *)
C5_RotationTrigger ==
    [][ (ncalls' = ncalls + 1 /\ last'.result = "ok" /\ FileBacked) =>
          LET name == instance_[1].log_filename_
              before == Content(FS, name)
              after == [dir |-> dir', inodes |-> inodes', streams |-> streams']
          IN  IF Len(before) >= instance_[1].file_settings_.maxFileSize
              THEN /\ Content(after, BackupPath(name, 1)) = before
                   /\ Exists(after, BackupPath(name, 1))
                   /\ Content(after, name) = RecordOf(ncalls', last'.level)
                   /\ after.dir[name] # dir[name]
              ELSE dir' = dir ]_vars

(* C6: with maxBackupIndex = k, after more than k rotations the backups    *)
(* that exist are those suffixed _1 to _k and no others (the suffixed      *)
(* names taken as getNewFileName builds them).                             *)
C6_BackupEviction ==
    (FileBacked /\ rotations > instance_[1].file_settings_.maxBackupIndex) =>
        \A i \in 0..MaxIdx :
            Exists(FS, getNewFileName(instance_[1].log_filename_, i))
                <=> (1 <= i /\ i <= instance_[1].file_settings_.maxBackupIndex)

(* C7: the backup path of index i is the primary path with "_<i>" before   *)
(* the last "." of the file name, or at the end when it has none.          *)
C7_BackupName ==
    (nm.done /\ nm.in # <<>>) => nm.out = BackupPath(nm.in, nm.idx)

(* C8: an entry point used before an initialize call has succeeded fails   *)
(* with the "uninitialized" error and touches no file and no console       *)
(* stream; used after one has succeeded, it never fails with that error.   *)
C8_UninitializedAccess ==
    [][ last'.op \in AccessOps =>
          IF nconstructed = 0
          THEN /\ last'.result = "uninitialized"
               /\ <<dir', inodes', streams', console'>> =
                    <<dir, inodes, streams, console>>
               /\ instance_' = instance_
          ELSE last'.result # "uninitialized" ]_vars

C8_Witness ==
    /\ last.op = "log" /\ last.result = "uninitialized"
    /\ ninit >= 1 /\ nconstructed = 0

(* C10: an initialize(filePath) whose file does not open hands the open    *)
(* error to its caller and leaves the logger uninitialized with the        *)
(* one-shot unconsumed: the next initialize call whose destination opens   *)
(* constructs the Logger.                                                  *)
C10_FailedOpenKeepsOneShot ==
    /\ [][ (ninit' = ninit + 1 /\ last'.result = "open_error") =>
             /\ IsNull(instance_') /\ nconstructed' = 0
             /\ <<dir', inodes', streams'>> = <<dir, inodes, streams>> ]_vars
    /\ [][ (ninit' = ninit + 1 /\ nconstructed = 0 /\ last'.result = "ok") =>
             /\ ~IsNull(instance_') /\ nconstructed' = 1 ]_vars
    /\ [][ (ninit' = ninit + 1 /\ nconstructed = 0
              /\ last.op = "initialize" /\ last.result = "open_error") =>
             last'.result \in {"ok", "open_error"} ]_vars

C10_Witness ==
    /\ last.op = "initialize" /\ last.result = "ok"
    /\ ninit = 2 /\ nconstructed = 1
    /\ Len(console["cerr"]) = 0

(* A qualifying log call on a Logger bound to a console stream *)
ConsoleBacked == ~IsNull(instance_) /\ instance_[1].owned_file_ = NoStream

(* C11: on a console-backed logger a configure call only stores its        *)
(* values: the qualifying log call that follows it completes, appends its  *)
(* record to the console stream, and touches no file.                      *)
C11_ConfigureOnConsole ==
    [][ (/\ ConsoleBacked
         /\ last.op = "configure" /\ last.result = "true"
         /\ ncalls' = ncalls + 1
         /\ last'.level >= instance_[1].min_level_) =>
            /\ last'.result = "ok"
            /\ console' = [console EXCEPT ![instance_[1].out_.console] =
                              @ \o RecordOf(ncalls', last'.level)]
            /\ <<dir', inodes', streams'>> = <<dir, inodes, streams>> ]_vars

(* C12: a configure call of either variant on an initialized logger        *)
(* returns true, makes the four policy fields equal to its arguments, and  *)
(* leaves min_level_, enable_colors_, out_ and log_filename_ as they were. *)
C12_ConfigureReplaces ==
    [][ (~IsNull(instance_) /\ last'.op = "configure") =>
            /\ last'.result = "true"
            /\ instance_'[1].file_settings_ = last'.arg[1]
            /\ instance_'[1].min_level_ = instance_[1].min_level_
            /\ instance_'[1].enable_colors_ = instance_[1].enable_colors_
            /\ instance_'[1].out_ = instance_[1].out_
            /\ instance_'[1].owned_file_ = instance_[1].owned_file_
            /\ instance_'[1].log_filename_ = instance_[1].log_filename_ ]_vars

(* A configure call has replaced a policy that differed from its argument  *)
(* in every field it could differ in, after a rotation had happened.       *)
C12_Witness ==
    /\ last.op = "configure" /\ last.result = "true"
    /\ last.arg = <<Settings(TRUE, TRUE, 3, 2)>>
    /\ instance_[1].file_settings_ = Settings(TRUE, TRUE, 3, 2)
    /\ FileBacked /\ ncalls >= 1

(* The file system after the step *)
FSAfter == [dir |-> dir', inodes |-> inodes', streams |-> streams']

(* The step is a log call at a level the Logger lets through *)
QualifyingLog ==
    /\ ~IsNull(instance_)
    /\ ncalls' = ncalls + 1
    /\ last'.level >= instance_[1].min_level_

(* The step moved the primary file's content to the first backup and left  *)
(* a new file at the primary path.                                         *)
Rotated ==
    LET name == instance_[1].log_filename_
    IN  /\ Exists(FSAfter, getNewFileName(name, 1))
        /\ Content(FSAfter, getNewFileName(name, 1)) = Content(FS, name)
        /\ Exists(FSAfter, name)
        /\ FSAfter.dir[name] # dir[name]

C14_UnconfiguredRotatesAlways ==
    [][ (/\ FileBacked /\ QualifyingLog
         /\ last.op = "initialize" /\ ninit = 1) =>
            /\ last'.result = "ok" /\ last'.rot = "true" /\ Rotated
            /\ Content(FSAfter, instance_[1].log_filename_)
                  = RecordOf(ncalls', last'.level) ]_vars

(* C15: a rotation moves every retained backup one index up before the     *)
(* younger generation takes its place, and the first backup receives the   *)
(* primary content: the backup of index i that existed before the rotation *)
(* is the backup of index i + 1 after it, for every i below                *)
(* maxBackupIndex (so a lower index always holds the younger content).     *)
C15_ShiftKeepsGenerations ==
    [][ (FileBacked /\ QualifyingLog /\ last'.rot = "true") =>
          LET name == instance_[1].log_filename_
              k == instance_[1].file_settings_.maxBackupIndex
          IN  /\ Exists(FSAfter, getNewFileName(name, 1))
              /\ Content(FSAfter, getNewFileName(name, 1)) = Content(FS, name)
              /\ \A i \in 1..(k - 1) :
                    Exists(FS, getNewFileName(name, i)) =>
                      /\ Exists(FSAfter, getNewFileName(name, i + 1))
                      /\ Content(FSAfter, getNewFileName(name, i + 1))
                            = Content(FS, getNewFileName(name, i)) ]_vars

(* The content ends with the line `record` *)
LastLineIs(content, record) ==
    /\ Len(content) >= Len(record)
    /\ SubSeq(content, Len(content) - Len(record) + 1, Len(content)) = record

(* C16: when a qualifying log call on a file-backed logger returns, its    *)
(* record is the last line of the primary file; when the call rotated, the *)
(* record is the new primary file's only content and no part of it is in   *)
(* the file that became the backup.                                        *)
C16_RecordGoesToPrimary ==
    [][ (FileBacked /\ QualifyingLog /\ last'.result = "ok") =>
          LET name == instance_[1].log_filename_
              record == RecordOf(ncalls', last'.level)
          IN  /\ Exists(FSAfter, name)
              /\ LastLineIs(Content(FSAfter, name), record)
              /\ last'.rot = "true" =>
                    /\ Content(FSAfter, name) = record
                    /\ FragsOf(Content(FSAfter, getNewFileName(name, 1)),
                               ncalls') = 0 ]_vars

(* The step renamed the primary file away and put no file in its place:    *)
(* the replacement file of a rotation did not open.                        *)
ReplacementNotOpened ==
    LET name == instance_[1].log_filename_
    IN  /\ Exists(FS, name)
        /\ ~Exists(FSAfter, name)
        /\ Exists(FSAfter, getNewFileName(name, 1))

(* C17: a log call whose rotation could not open the replacement primary   *)
(* file ends with the open error at its caller, and no part of its record  *)
(* is written anywhere.                                                    *)
C17_FailedReplacementThrows ==
    [][ (FileBacked /\ QualifyingLog /\ ReplacementNotOpened) =>
            /\ last'.result = "open_error"
            /\ FragsOf(AllOutput(inodes', console'), ncalls') = 0 ]_vars

(* A log call has ended with the open error after its rotation renamed the *)
(* primary file to the first backup.                                       *)
C17_Witness ==
    /\ FileBacked
    /\ last.op = "log" /\ last.result = "open_error"
    /\ ~Exists(FS, instance_[1].log_filename_)
    /\ Content(FS, getNewFileName(instance_[1].log_filename_, 1)) = OldLine

(* The stream the Logger writes through is not open *)
DestinationGone ==
    FileBacked /\ streams[instance_[1].owned_file_].st # "open"

(* C18: once a rotation has failed and left the Logger without an open     *)
(* destination, no qualifying log call returns normally with its record    *)
(* discarded.                                                              *)
C18_NoSilentDiscard ==
    [][ (DestinationGone /\ QualifyingLog /\ last'.result = "ok") =>
            FragsOf(AllOutput(inodes', console'), ncalls')
                = Len(RecordOf(ncalls', last'.level)) ]_vars

(* C19: a log call at a level below min_level_ changes nothing: no file,   *)
(* no stream, no console output and no field of the Logger, and no         *)
(* rotation is checked or performed.                                       *)
C19_FilteredChangesNothing ==
    [][ (/\ ~IsNull(instance_)
         /\ ncalls' = ncalls + 1
         /\ last'.level < instance_[1].min_level_) =>
            /\ last'.result = "filtered" /\ last'.rot = "none"
            /\ instance_' = instance_
            /\ <<dir', inodes', streams'>> = <<dir, inodes, streams>>
            /\ console' = console ]_vars

(* A log call was filtered out on a file-backed logger whose primary file  *)
(* had reached a non-zero maxFileSize.                                     *)
C19_Witness ==
    /\ FileBacked
    /\ last.op = "log" /\ last.result = "filtered"
    /\ instance_[1].file_settings_.maxFileSize = 3
    /\ Len(Content(FS, instance_[1].log_filename_)) >= 3
    /\ ~Exists(FS, getNewFileName(instance_[1].log_filename_, 1))

(* The content `new` keeps everything `old` held, in place *)
Keeps(new, old) ==
    Len(new) >= Len(old) /\ SubSeq(new, 1, Len(old)) = old

---------------------------------------------------------------------------
(* Properties of concurrent initialization *)

ReturnedFrom(t, op) == thr[t].pc = "idle" /\ thr[t].op = op

(* C3: of the threads that call initialize concurrently exactly one runs   *)
(* the construction, and an initialize call returns only when the          *)
(* singleton is constructed; from then on instance_ never changes.         *)
C3_OneConstruction ==
    /\ [](nconstructed <= 1)
    /\ [](Cardinality({ t \in Threads : thr[t].built }) <= 1)
    /\ [](\A t \in Threads :
            (ReturnedFrom(t, "initialize") /\ thr[t].res = "ok") =>
                (~IsNull(instance_) /\ nconstructed = 1))
    /\ [][ (\E t \in Threads :
              ReturnedFrom(t, "initialize") /\ thr[t].res = "ok") =>
             instance_' = instance_ ]_vars

(* Two threads entered initialize before the Logger existed (neither saw   *)
(* it, neither warned); one built it, both have returned.                  *)
C3_Witness ==
    \E t, u \in Threads :
        /\ t # u
        /\ ReturnedFrom(t, "initialize") /\ thr[t].res = "ok" /\ thr[t].built
        /\ ReturnedFrom(u, "initialize") /\ thr[u].res = "ok" /\ ~thr[u].built
        /\ thr[t].calls = 1 /\ thr[u].calls = 1
        /\ ~thr[t].warned /\ ~thr[u].warned

(* C9: an initialize call that is not the one that constructed the Logger  *)
(* returns normally, has changed neither the Logger nor the files, and has *)
(* written the diagnostic to the error console.                            *)
C9_LaterInitializeWarns ==
    [][ \A t \in Threads :
          (thr[t].pc # "idle" /\ ReturnedFrom(t, "initialize")' /\ ~thr'[t].built) =>
              /\ thr'[t].res = "ok"
              /\ thr'[t].warned
              /\ instance_' = instance_
              /\ <<dir', inodes', streams'>> = <<dir, inodes, streams>> ]_vars

---------------------------------------------------------------------------
(* Properties of concurrent logging *)

(* C4: every qualifying log call made while other threads log produces     *)
(* exactly one complete line, unbroken by fragments of another call, and   *)
(* once all calls have returned there are as many lines as qualifying      *)
(* calls.                                                                  *)
C4_OneLinePerCall ==
    LET output == AllOutput(inodes, console)
        done == { t \in Threads : ReturnedFrom(t, "log") /\ thr[t].res = "ok"
                                  /\ thr[t].calls = 1 }
    IN  /\ \A t \in done :
              LinesOf(output, RecordOf(thr[t].id, thr[t].level)) = 1
        /\ (\A t \in Threads : thr[t].pc = "idle" /\ thr[t].calls = 1) =>
              Cardinality({ k \in 1..Len(output) :
                               /\ output[k].call > 0
                               /\ output[k].part = RecordParts[Len(RecordParts)] })
                  = Cardinality(done)

(* The stream thread t's next insertion goes through *)
StreamOf(t) == IF thr[t].part = 1 THEN instance_[1].out_ ELSE thr[t].out

(* C20: when threads log concurrently on a file-backed logger whose        *)
(* primary file has reached maxFileSize, their check-rotate-write          *)
(* sequences do not interleave: the primary file is renamed away only      *)
(* while it is at or above maxFileSize (one rotation for one crossing),    *)
(* the first backup never becomes an empty file, and no insertion goes     *)
(* through a stream that has been closed or destroyed.                     *)
C20_RotationIsAtomic ==
    /\ [][ (FileBacked /\ Exists(FS, instance_[1].log_filename_)
               /\ FSAfter.dir # dir
               /\ ~Exists(FSAfter, instance_[1].log_filename_)) =>
             Len(Content(FS, instance_[1].log_filename_))
                 >= instance_[1].file_settings_.maxFileSize ]_vars
    /\ [](FileBacked =>
            LET backup == getNewFileName(instance_[1].log_filename_, 1)
            IN  Exists(FS, backup) => Content(FS, backup) # <<>>)
    /\ [][ \A t \in Threads :
             (FileBacked /\ thr[t].pc = "insert" /\ thr'[t] # thr[t]) =>
                 streams[StreamOf(t).file].st = "open" ]_vars

====
